---- MODULE Spec2Model ----
(***************************************************************************)
(* account.voucher.wizard of sale_advance_payment: the transient wizard    *)
(* that registers an advance payment against a sales order.                *)
(*                                                                         *)
(* Amounts are integers counted in the smallest monetary unit (cents), the *)
(* precision Monetary fields are stored at; ids are positive integers and  *)
(* None (0) is the empty recordset / False.                                *)
(***************************************************************************)
EXTENDS Integers, Sequences, FiniteSets, TLC

VARIABLES
    wizards,              \* account.voucher.wizard rows, id = index
    payments,             \* account.payment rows, id = index
    account_payment_ids,  \* sale.order.account_payment_ids, per order
    last                  \* the last request served and what it answered

vars == <<wizards, payments, account_payment_ids, last>>

\* ------------------------------------------------------------------ bounds
MaxWizards == 2
MaxPayments == 2
MaxAmount == 2

\* ------------------------------------------------- records of the database
None == 0

NoCurrency == "none"
Currencies == {"EUR", "USD"}
Dates == {"d1", "d2"}
Today == "d1"
PaymentTypes == {"inbound", "outbound"}
PaymentRefs == {"", "REF"}
Amounts == (-1)..MaxAmount

Orders == {1, 2}
Journals == {1, 2}
MethodLines == {1, 2, 3, 4}

\* sale.order rows: total, name, pricelist currency (may be unset), currency,
\* commercial partner of the invoice address.
OrderTotal(o) == IF o = 1 THEN 2 ELSE 3
OrderName(o) == IF o = 1 THEN "S0001" ELSE "S0002"
PricelistCurrency(o) == IF o = 1 THEN NoCurrency ELSE "USD"
SaleCurrency(o) == "EUR"
CommercialPartner(o) == IF o = 1 THEN 7 ELSE 8

\* account.journal rows: journal 1 has no currency of its own (its company's
\* is EUR), journal 2 is a USD journal without outbound method lines.
JournalCurrency(j) == IF j = 2 THEN "USD" ELSE NoCurrency
JournalCompanyCurrency(j) == "EUR"
GetAvailablePaymentMethodLines(j, payment_type) ==
    IF j = 1
    THEN (IF payment_type = "inbound" THEN <<1, 2>> ELSE <<3>>)
    ELSE (IF payment_type = "inbound" THEN <<4>> ELSE <<>>)

\* a or b on currency ids
OrCurrency(a, b) == IF a # NoCurrency THEN a ELSE b

\* res.currency._convert: amount * rate(to) / rate(from) at the date, rounded
\* half away from zero to the unit of the target currency.
Rate(cur, date) == IF cur = "EUR" THEN 1 ELSE IF date = "d1" THEN 2 ELSE 4
RoundDiv(n, d) == IF n >= 0 THEN (2 * n + d) \div (2 * d)
                  ELSE -(((2 * (-n)) + d) \div (2 * d))
Convert(amount, from, to, date) ==
    RoundDiv(amount * Rate(to, date), Rate(from, date))

\* odoo.tools.float_compare(a, b, precision_digits=2) on amounts in cents
FloatCompare(a, b) == IF a > b THEN 1 ELSE IF a < b THEN -1 ELSE 0

SeqToSet(s) == {s[i] : i \in 1..Len(s)}

\* ----------------------------------------------------- sale.order residual
OrderCurrency(o) == OrCurrency(PricelistCurrency(o), SaleCurrency(o))

\* One posted payment's contribution to the amount advanced on order o.
PaymentAdvance(p, o) ==
    IF p.state # "posted" THEN 0
    ELSE LET a == IF p.currency_id = OrderCurrency(o) THEN p.amount
                  ELSE Convert(p.amount, p.currency_id, OrderCurrency(o), p.date)
         IN  IF p.payment_type = "inbound" THEN a ELSE -a

RECURSIVE SumAdvance(_, _, _)
SumAdvance(pays, ids, o) ==
    IF ids = {} THEN 0
    ELSE LET i == CHOOSE x \in ids : TRUE
         IN  PaymentAdvance(pays[i], o) + SumAdvance(pays, ids \ {i}, o)

AmountAdvanced(o) == SumAdvance(payments, account_payment_ids[o], o)
AmountResidual(o) == OrderTotal(o) - AmountAdvanced(o)

\* ------------------------------------------------------- request contexts
\* env.context of a call: active_id and active_ids.
Ctx(id, ids) == [active_id |-> id, active_ids |-> ids]
Contexts == {Ctx(None, <<>>), Ctx(1, <<1>>), Ctx(2, <<2, 1>>), Ctx(None, <<1>>)}

\* fields.first(records)
First(ids) == ids[1]

\* ------------------------------------------------------- computed fields
\* _get_payment_method_codes_to_exclude
GetPaymentMethodCodesToExclude(wzd) == {}

\* account.payment.method.line.code
LineCode(l) == IF l = 2 THEN "check" ELSE "manual"

\* _compute_payment_method_line_fields: available_payment_method_line_ids
\* (not stored: computed from the record whenever it is read)
AvailablePaymentMethodLineIds(wzd) ==
    LET lines == GetAvailablePaymentMethodLines(wzd.journal_id, wzd.payment_type)
        to_exclude == GetPaymentMethodCodesToExclude(wzd)
    IN  IF to_exclude # {}
        THEN SelectSeq(lines, LAMBDA l : LineCode(l) \notin to_exclude)
        ELSE lines

\* _compute_payment_method_line_id as it would be always selecting the first
\* available line.
ComputePaymentMethodLineIdFirst(wzd) ==
    LET available == AvailablePaymentMethodLineIds(wzd)
    IN  IF available # <<>>
        THEN [wzd EXCEPT !.payment_method_line_id = available[1]]
        ELSE [wzd EXCEPT !.payment_method_line_id = None]

\* _compute_payment_method_line_id
ComputePaymentMethodLineId(wzd) ==
    LET available == AvailablePaymentMethodLineIds(wzd)
    IN  IF wzd.payment_method_line_id \in SeqToSet(available)
        THEN wzd
        ELSE IF available # <<>>
        THEN [wzd EXCEPT !.payment_method_line_id = available[1]]
        ELSE [wzd EXCEPT !.payment_method_line_id = None]

\* _compute_get_journal_currency
ComputeGetJournalCurrency(wzd) ==
    [wzd EXCEPT !.journal_currency_id =
        OrCurrency(JournalCurrency(wzd.journal_id),
                   JournalCompanyCurrency(wzd.journal_id))]

\* _compute_currency_amount
ComputeCurrencyAmount(wzd) ==
    [wzd EXCEPT !.currency_amount =
        IF wzd.journal_currency_id # wzd.currency_id
        THEN Convert(wzd.amount_advance, wzd.journal_currency_id,
                     wzd.currency_id, wzd.date)
        ELSE wzd.amount_advance]

\* The @api.depends declarations: the written fields that mark each computed
\* field for recomputation.
DependsPaymentMethodLine == {"payment_type", "journal_id", "currency_id"}
DependsJournalCurrency == {"journal_id"}
DependsCurrencyAmount == {"journal_id", "date", "amount_advance"}

\* The @api.constrains declaration of check_amount.
ConstrainsCheckAmount == {"amount_advance"}

\* The recomputation the ORM runs after `names` were written. A compute that
\* reads a field still marked for recomputation gets it recomputed first, so
\* journal_currency_id is always settled before currency_amount reads it.
Recompute(wzd, names) ==
    LET r1 == IF names \cap DependsJournalCurrency # {}
              THEN ComputeGetJournalCurrency(wzd) ELSE wzd
        r2 == IF names \cap DependsCurrencyAmount # {}
              THEN ComputeCurrencyAmount(r1) ELSE r1
    IN  IF names \cap DependsPaymentMethodLine # {}
        THEN ComputePaymentMethodLineId(r2) ELSE r2

\* ------------------------------------------------------------ check_amount
\* check_amount as it would be with "< 0" for "<= 0": a zero advance passes.
CheckAmountZeroPasses(wzd, ctx) ==
    IF wzd.amount_advance < 0 THEN "ValidationError"
    ELSE IF ctx.active_id # None
    THEN IF wzd.payment_type = "inbound"
         THEN IF FloatCompare(wzd.currency_amount,
                              AmountResidual(wzd.order_id)) > 0
              THEN "ValidationError" ELSE "ok"
         ELSE IF FloatCompare(wzd.currency_amount,
                              OrderTotal(wzd.order_id) - wzd.amount_total) > 0
              THEN "ValidationError" ELSE "ok"
    ELSE "ok"

\* check_amount as it would be comparing an inbound advance with the order's
\* total instead of its residual.
CheckAmountAgainstTotal(wzd, ctx) ==
    IF wzd.amount_advance <= 0 THEN "ValidationError"
    ELSE IF ctx.active_id # None
    THEN IF wzd.payment_type = "inbound"
         THEN IF FloatCompare(wzd.currency_amount,
                              OrderTotal(wzd.order_id)) > 0
              THEN "ValidationError" ELSE "ok"
         ELSE IF FloatCompare(wzd.currency_amount,
                              OrderTotal(wzd.order_id) - wzd.amount_total) > 0
              THEN "ValidationError" ELSE "ok"
    ELSE "ok"

CheckAmount(wzd, ctx) ==
    IF wzd.amount_advance <= 0 THEN "ValidationError"
    ELSE IF ctx.active_id # None
    THEN IF wzd.payment_type = "inbound"
         THEN IF FloatCompare(wzd.currency_amount,
                              AmountResidual(wzd.order_id)) > 0
              THEN "ValidationError" ELSE "ok"
         ELSE LET paid_in_advanced ==
                      OrderTotal(wzd.order_id) - wzd.amount_total
              IN  IF FloatCompare(wzd.currency_amount, paid_in_advanced) > 0
                  THEN "ValidationError" ELSE "ok"
    ELSE "ok"

\* ------------------------------------------------------------- default_get
FieldNames == {"order_id", "journal_id", "payment_method_line_id",
               "journal_currency_id", "currency_id", "amount_total",
               "amount_advance", "date", "currency_amount", "payment_ref",
               "payment_type"}

\* dict.update
Update(res, upd) ==
    [f \in DOMAIN res \cup DOMAIN upd |->
        IF f \in DOMAIN upd THEN upd[f] ELSE res[f]]

\* super().default_get: the defaults the field declarations carry.
SuperDefaultGet(fields_list) ==
    [f \in fields_list \cap {"date", "payment_type"} |->
        IF f = "date" THEN Today ELSE "inbound"]

\* default_get as it would be taking the order's total for its residual.
DefaultGetOrderTotal(ctx, fields_list) ==
    LET res == SuperDefaultGet(fields_list)
        sale_ids == ctx.active_ids
    IN  IF sale_ids = <<>> THEN res
        ELSE LET sale == First(sale_ids)
             IN  IF "amount_total" \in fields_list
                 THEN Update(res,
                        [order_id |-> sale,
                         amount_total |-> OrderTotal(sale),
                         currency_id |-> OrCurrency(PricelistCurrency(sale),
                                                    SaleCurrency(sale))])
                 ELSE res

DefaultGet(ctx, fields_list) ==
    LET res == SuperDefaultGet(fields_list)
        sale_ids == ctx.active_ids
    IN  IF sale_ids = <<>> THEN res
        ELSE LET sale == First(sale_ids)
             IN  IF "amount_total" \in fields_list
                 THEN Update(res,
                        [order_id |-> sale,
                         amount_total |-> AmountResidual(sale),
                         currency_id |-> OrCurrency(PricelistCurrency(sale),
                                                    SaleCurrency(sale))])
                 ELSE res

\* ------------------------------------------------------ create and write
\* The values a caller may write to each field.
FieldValues(f) ==
    CASE f = "journal_id" -> Journals
      [] f = "date" -> Dates
      [] f = "amount_advance" -> Amounts
      [] f = "payment_type" -> PaymentTypes
      [] f = "currency_id" -> Currencies
      [] f = "payment_method_line_id" -> MethodLines \cup {None}
      [] f = "payment_ref" -> PaymentRefs

WritableFields == {"journal_id", "date", "amount_advance", "payment_type",
                   "currency_id", "payment_method_line_id", "payment_ref"}

\* The vals of a create call: the form's own fields, and, when the caller
\* names the order itself, the order with its residual and currency.
CreateVals(o, j, a, t, d, ref) ==
    LET form == [journal_id |-> j, amount_advance |-> a, payment_type |-> t,
                 date |-> d, payment_ref |-> ref]
    IN  IF o = None THEN form
        ELSE Update(form, [order_id |-> o,
                           amount_total |-> AmountResidual(o),
                           currency_id |-> OrderCurrency(o)])

\* BaseModel.create up to the constraints: the missing fields take their
\* defaults from default_get(missing), the rest are empty, and the stored
\* computed fields are computed.
NewRecord(ctx, vals) ==
    LET defaults == DefaultGet(ctx, FieldNames \ DOMAIN vals)
        given == Update(defaults, vals)
        Get(f, empty) == IF f \in DOMAIN given THEN given[f] ELSE empty
    IN  Recompute(
            [order_id |-> Get("order_id", None),
             journal_id |-> Get("journal_id", None),
             payment_method_line_id |-> None,
             journal_currency_id |-> NoCurrency,
             currency_id |-> Get("currency_id", NoCurrency),
             amount_total |-> Get("amount_total", 0),
             amount_advance |-> Get("amount_advance", 0),
             date |-> Get("date", Today),
             currency_amount |-> 0,
             payment_ref |-> Get("payment_ref", ""),
             payment_type |-> Get("payment_type", "inbound")],
            FieldNames)

\* order_id = fields.Many2one("sale.order", required=True)
RequiredSet(wzd) == wzd.order_id # None

\* The constraints the ORM runs after `names` were written.
Validate(wzd, names, ctx) ==
    IF names \cap ConstrainsCheckAmount # {} THEN CheckAmount(wzd, ctx)
    ELSE "ok"

Init ==
    /\ wizards = <<>>
    /\ payments = <<>>
    /\ account_payment_ids = [o \in Orders |-> {}]
    /\ last = [op |-> "init"]

\* create(vals) under context ctx. A failed call is rolled back.
Create(ctx, vals) ==
    LET wzd == NewRecord(ctx, vals)
        result == IF ~RequiredSet(wzd) THEN "IntegrityError"
                  ELSE Validate(wzd, DOMAIN vals, ctx)
    IN  /\ wizards' = IF result = "ok" THEN Append(wizards, wzd) ELSE wizards
        /\ last' = [op |-> "create", ctx |-> ctx, result |-> result,
                    rec |-> wzd, field |-> "amount_advance",
                    wzd |-> IF result = "ok" THEN Len(wizards) + 1 ELSE None]
        /\ UNCHANGED <<payments, account_payment_ids>>

\* wizards[w].write({f: v}) under context ctx. A failed call is rolled back.
Write(w, f, v, ctx) ==
    LET wzd == Recompute([wizards[w] EXCEPT ![f] = v], {f})
        result == Validate(wzd, {f}, ctx)
    IN  /\ wizards' = IF result = "ok" THEN [wizards EXCEPT ![w] = wzd]
                      ELSE wizards
        /\ last' = [op |-> "write", ctx |-> ctx, result |-> result,
                    rec |-> wzd, field |-> f, wzd |-> w]
        /\ UNCHANGED <<payments, account_payment_ids>>

\* ---------------------------------------------------- make_advance_payment
WindowClose == [type |-> "ir.actions.act_window_close"]

\* _prepare_payment_vals as it would be paying in the order's currency
\* (currency_id) instead of the journal's.
PreparePaymentValsOrderCurrency(wzd, sale) ==
    IF wzd.amount_advance < 0
    THEN [raised |-> "UserError"]
    ELSE [raised |-> "",
          vals |-> [date |-> wzd.date,
                    amount |-> wzd.amount_advance,
                    payment_type |-> wzd.payment_type,
                    partner_type |-> "customer",
                    ref |-> IF wzd.payment_ref # "" THEN wzd.payment_ref
                            ELSE OrderName(sale),
                    journal_id |-> wzd.journal_id,
                    currency_id |-> wzd.currency_id,
                    partner_id |-> CommercialPartner(sale),
                    payment_method_line_id |-> wzd.payment_method_line_id]]

\* _prepare_payment_vals(sale): the payload, or the error it raises.
PreparePaymentVals(wzd, sale) ==
    IF wzd.amount_advance < 0
    THEN [raised |-> "UserError"]
    ELSE [raised |-> "",
          vals |-> [date |-> wzd.date,
                    amount |-> wzd.amount_advance,
                    payment_type |-> wzd.payment_type,
                    partner_type |-> "customer",
                    ref |-> IF wzd.payment_ref # "" THEN wzd.payment_ref
                            ELSE OrderName(sale),
                    journal_id |-> wzd.journal_id,
                    currency_id |-> wzd.journal_currency_id,
                    partner_id |-> CommercialPartner(sale),
                    payment_method_line_id |-> wzd.payment_method_line_id]]

\* The database a request works on, with the log of what it did to it.
Db == [payments |-> payments, account_payment_ids |-> account_payment_ids,
       steps |-> <<>>]

\* payment_obj.create(payment_vals): a draft payment with the next id
PaymentCreate(db, payment_vals) ==
    [db EXCEPT !.payments = Append(@, Update(payment_vals, [state |-> "draft"])),
               !.steps = Append(@, "create")]

\* The link as it would be with "=" for "|=": the payment replaces the
\* order's earlier ones.
LinkPaymentReplacing(db, sale, payment) ==
    [db EXCEPT !.account_payment_ids[sale] = {payment},
               !.steps = Append(@, "link")]

\* sale.account_payment_ids |= payment
LinkPayment(db, sale, payment) ==
    [db EXCEPT !.account_payment_ids[sale] = @ \cup {payment},
               !.steps = Append(@, "link")]

\* payment.action_post()
ActionPost(db, payment) ==
    [db EXCEPT !.payments[payment].state = "posted",
               !.steps = Append(@, "post")]

\* make_advance_payment as it would be posting the payment before linking it
\* to the order.
MakeAdvancePaymentPostFirst(wzd, ctx) ==
    LET sale_ids == ctx.active_ids
    IN  IF sale_ids # <<>>
        THEN LET sale == First(sale_ids)
                 prepared == PreparePaymentVals(wzd, sale)
             IN  IF prepared.raised # ""
                 THEN [db |-> Db, raised |-> prepared.raised]
                 ELSE LET db1 == PaymentCreate(Db, prepared.vals)
                          payment == Len(db1.payments)
                          db2 == ActionPost(db1, payment)
                          db3 == LinkPayment(db2, sale, payment)
                      IN  [db |-> db3, raised |-> "", ret |-> WindowClose,
                           vals |-> prepared.vals]
        ELSE [db |-> Db, raised |-> "", ret |-> WindowClose]

\* make_advance_payment on wzd under ctx: the database it leaves, what it
\* raised and what it returned.
MakeAdvancePayment(wzd, ctx) ==
    LET sale_ids == ctx.active_ids
    IN  IF sale_ids # <<>>
        THEN LET sale == First(sale_ids)
                 prepared == PreparePaymentVals(wzd, sale)
             IN  IF prepared.raised # ""
                 THEN [db |-> Db, raised |-> prepared.raised]
                 ELSE LET db1 == PaymentCreate(Db, prepared.vals)
                          payment == Len(db1.payments)
                          db2 == LinkPayment(db1, sale, payment)
                          db3 == ActionPost(db2, payment)
                      IN  [db |-> db3, raised |-> "", ret |-> WindowClose,
                           vals |-> prepared.vals]
        ELSE [db |-> Db, raised |-> "", ret |-> WindowClose]

\* --------------------------------------------------------------- requests
\* A scope names the inputs a specification draws its requests from.
CreateCall(S) ==
    \E ctx \in S.ctxs, o \in S.orders, j \in S.journals, a \in Amounts,
       t \in PaymentTypes, d \in S.dates, ref \in S.refs :
        /\ Len(wizards) < S.maxw
        /\ Create(ctx, CreateVals(o, j, a, t, d, ref))

WriteCall(S) ==
    \E w \in 1..Len(wizards), f \in S.fields, ctx \in S.ctxs :
        \E v \in FieldValues(f) : Write(w, f, v, ctx)

MakeAdvancePaymentCall(S) ==
    \E w \in 1..Len(wizards), ctx \in S.ctxs :
        LET out == MakeAdvancePayment(wizards[w], ctx)
        IN  /\ Len(payments) < MaxPayments
            /\ payments' = out.db.payments
            /\ account_payment_ids' = out.db.account_payment_ids
            /\ last' = [op |-> "make_advance_payment", ctx |-> ctx, wzd |-> w,
                        result |-> IF out.raised = "" THEN "ok" ELSE out.raised,
                        ret |-> IF out.raised = "" THEN out.ret ELSE <<>>,
                        vals |-> IF out.db.steps # <<>> THEN out.vals ELSE <<>>,
                        steps |-> out.db.steps,
                        before |-> [payments |-> payments,
                                    account_payment_ids |-> account_payment_ids]]
            /\ UNCHANGED wizards

FieldsLists == {FieldNames, FieldNames \ {"amount_total"},
                {"amount_total"}, {"order_id", "currency_id", "date"}, {}}

DefaultGetCall(S) ==
    \E ctx \in S.ctxs, fields_list \in FieldsLists :
        /\ last' = [op |-> "default_get", ctx |-> ctx,
                    fields_list |-> fields_list, result |-> "ok",
                    res |-> DefaultGet(ctx, fields_list)]
        /\ UNCHANGED <<wizards, payments, account_payment_ids>>

\* ---------------------------------------------------------- specifications
\* Spec: the wizards opened from one order, several at a time, every request
\* carrying that order as the active one.
LifeScope ==
    [ctxs |-> {Ctx(1, <<1>>)},
     orders |-> {None}, journals |-> Journals, dates |-> {Today}, refs |-> {""},
     fields |-> {"amount_advance", "payment_type"}, maxw |-> MaxWizards]

Next ==
    \/ CreateCall(LifeScope)
    \/ WriteCall(LifeScope)
    \/ MakeAdvancePaymentCall(LifeScope)

Spec == Init /\ [][Next]_vars

\* SpecSave: one wizard saved and paid through either journal, under every
\* kind of context.
SaveScope ==
    [ctxs |-> {Ctx(None, <<>>), Ctx(1, <<1>>), Ctx(None, <<1>>)},
     orders |-> {None, 1}, journals |-> Journals, dates |-> {Today},
     refs |-> {""},
     fields |-> {"amount_advance", "payment_type"}, maxw |-> 1]

NextSave ==
    \/ CreateCall(SaveScope)
    \/ WriteCall(SaveScope)
    \/ MakeAdvancePaymentCall(SaveScope)

SpecSave == Init /\ [][NextSave]_vars

\* SpecFields: one wizard and every edit of its fields.
FieldsScope ==
    [ctxs |-> {Ctx(1, <<1>>)},
     orders |-> {None}, journals |-> Journals, dates |-> Dates, refs |-> {""},
     fields |-> WritableFields \ {"payment_ref"}, maxw |-> 1]

NextFields ==
    \/ CreateCall(FieldsScope)
    \/ WriteCall(FieldsScope)

SpecFields == Init /\ [][NextFields]_vars

\* SpecCall: default_get and make_advance_payment called, under any context,
\* on a record built from any vals, saved or not (Model.new runs no
\* constraint).
CallScope ==
    [ctxs |-> Contexts, orders |-> Orders \cup {None}, journals |-> Journals,
     dates |-> Dates, refs |-> PaymentRefs]

InitCall ==
    /\ payments = <<>>
    /\ account_payment_ids = [o \in Orders |-> {}]
    /\ last = [op |-> "init"]
    /\ \E ctx \in CallScope.ctxs, o \in CallScope.orders,
          j \in CallScope.journals, a \in Amounts, t \in PaymentTypes,
          d \in CallScope.dates, ref \in CallScope.refs :
            LET wzd == NewRecord(ctx, CreateVals(o, j, a, t, d, ref))
            IN  /\ RequiredSet(wzd)
                /\ wizards = <<wzd>>

NextCall ==
    \/ DefaultGetCall(CallScope)
    \/ MakeAdvancePaymentCall(CallScope)

SpecCall == InitCall /\ [][NextCall]_vars

\* ------------------------------------------------------------- properties
\* The last request was a save that ran check_amount: a create, or a write
\* of amount_advance.
SavedAmount ==
    /\ last.op \in {"create", "write"}
    /\ last.field \in ConstrainsCheckAmount

\* C1: the advance amount must be > 0. Every create, and every write of
\* amount_advance, of a record whose amount_advance is <= 0 is rejected (with
\* the validation error whenever the record has its required order), for
\* either direction and under any context, so no saved wizard holds a zero or
\* negative amount_advance.
C1_AmountMustBePositive ==
    /\ \A w \in 1..Len(wizards) : wizards[w].amount_advance > 0
    /\ (SavedAmount /\ last.rec.amount_advance <= 0) =>
           /\ last.result # "ok"
           /\ RequiredSet(last.rec) => last.result = "ValidationError"

\* C1 happens: a write of a zero amount on an outbound wizard, under a
\* context with no active order, was rejected.
C1_Witness ==
    /\ last.op = "write"
    /\ last.field = "amount_advance"
    /\ last.rec.amount_advance = 0
    /\ last.rec.payment_type = "outbound"
    /\ last.ctx.active_id = None
    /\ last.result = "ValidationError"

\* The inbound save in last.rec has a converted amount above / equal to the
\* residual of its order, compared at 2 decimal digits.
InboundSave ==
    /\ SavedAmount
    /\ RequiredSet(last.rec)
    /\ last.rec.payment_type = "inbound"

InboundCompare ==
    FloatCompare(last.rec.currency_amount, AmountResidual(last.rec.order_id))

\* C2 as claimed: every save of an inbound wizard whose converted amount is
\* greater than the order's residual is rejected with a validation error,
\* and a converted amount equal to the residual is accepted.
C2_Original ==
    /\ (InboundSave /\ InboundCompare > 0) => last.result = "ValidationError"
    /\ (InboundSave /\ InboundCompare = 0 /\ last.rec.amount_advance > 0) =>
           last.result = "ok"

\* C2, amended: every save of an inbound wizard made with an active_id in
\* the context, whose converted amount is greater than the order's residual,
\* is rejected with a validation error; a positive converted amount equal to
\* the residual is accepted.
C2_InboundWithinResidual ==
    /\ (InboundSave /\ last.ctx.active_id # None /\ InboundCompare > 0) =>
           last.result = "ValidationError"
    /\ (InboundSave /\ InboundCompare = 0 /\ last.rec.amount_advance > 0) =>
           last.result = "ok"

\* C2 happens: a positive inbound amount entered in the USD journal, whose
\* conversion exceeds what is left of the order, was rejected.
C2_Witness ==
    /\ InboundSave
    /\ last.ctx.active_id # None
    /\ last.rec.amount_advance > 0
    /\ last.rec.journal_currency_id # last.rec.currency_id
    /\ InboundCompare > 0
    /\ last.result = "ValidationError"

\* The outbound save in last.rec, made where check_amount compares at all
\* (an active_id in the context).
OutboundSave ==
    /\ SavedAmount
    /\ RequiredSet(last.rec)
    /\ last.ctx.active_id # None
    /\ last.rec.payment_type = "outbound"

\* C3: every save of an outbound wizard whose converted amount is greater
\* than (order total - current residual), the amount advanced on the order at
\* the time of validation, is rejected with a validation error.
C3_OutboundWithinAdvanced ==
    (OutboundSave /\
     FloatCompare(last.rec.currency_amount,
                  OrderTotal(last.rec.order_id)
                      - AmountResidual(last.rec.order_id)) > 0) =>
        last.result = "ValidationError"

\* The payment the last make_advance_payment call posted, the order it was
\* linked to, and what had been advanced on that order before the call.
Posted == last.op = "make_advance_payment" /\ last.steps # <<>>
PostedPayment == payments[Len(payments)]
PostedSale == First(last.ctx.active_ids)
PostedAmount ==
    IF PostedPayment.currency_id = OrderCurrency(PostedSale)
    THEN PostedPayment.amount
    ELSE Convert(PostedPayment.amount, PostedPayment.currency_id,
                 OrderCurrency(PostedSale), PostedPayment.date)
AdvancedBefore ==
    SumAdvance(last.before.payments,
               last.before.account_payment_ids[PostedSale], PostedSale)

\* C10: every payment posted satisfies, at the moment of posting, the bound
\* of its direction (inbound: converted amount <= the order's residual then;
\* outbound: converted amount <= the amount advanced then), so the net amount
\* advanced on an order never exceeds the order total nor goes below zero.
C10_PostedWithinBounds ==
    /\ Posted =>
           IF PostedPayment.payment_type = "inbound"
           THEN PostedAmount <= OrderTotal(PostedSale) - AdvancedBefore
           ELSE PostedAmount <= AdvancedBefore
    /\ \A o \in Orders :
           AmountAdvanced(o) >= 0 /\ AmountAdvanced(o) <= OrderTotal(o)

\* The last request was a make_advance_payment call.
Made == last.op = "make_advance_payment"
MadeOk == Made /\ last.result = "ok"
Unchanged ==
    /\ payments = last.before.payments
    /\ account_payment_ids = last.before.account_payment_ids

\* Exactly one payment was added by the last call, posted, and linked to
\* order o on top of what the orders had.
OnePaymentPostedOn(o) ==
    /\ Len(payments) = Len(last.before.payments) + 1
    /\ SubSeq(payments, 1, Len(last.before.payments)) = last.before.payments
    /\ payments[Len(payments)].state = "posted"
    /\ account_payment_ids =
           [last.before.account_payment_ids EXCEPT
               ![o] = @ \cup {Len(payments)}]

\* C4 as claimed: every successful call of make_advance_payment constructs
\* and posts exactly one payment, linked to the wizard's order_id, and
\* returns the window-close action.
C4_Original ==
    MadeOk =>
        /\ OnePaymentPostedOn(wizards[last.wzd].order_id)
        /\ last.ret = WindowClose

\* C4, amended: every successful call of make_advance_payment made with
\* active sales order ids in the context constructs and posts exactly one
\* payment, linked to the first active order of the context (a member of that
\* order's account_payment_ids), and returns the window-close action.
C4_OnePaymentPosted ==
    (MadeOk /\ last.ctx.active_ids # <<>>) =>
        /\ OnePaymentPostedOn(last.ctx.active_ids[1])
        /\ last.ret = WindowClose

\* C4 happens: a second payment was posted on the order the wizard was
\* opened from, which already had one.
C4_Witness ==
    /\ MadeOk
    /\ last.ctx.active_ids # <<>>
    /\ last.ctx.active_ids[1] = wizards[last.wzd].order_id
    /\ Cardinality(account_payment_ids[wizards[last.wzd].order_id]) = 2

\* The last request was a default_get call.
Defaulted == last.op = "default_get"

\* The defaults named the order o as the parent: its id, its residual, and
\* its pricelist currency if set, otherwise its own currency.
PopulatedFrom(res, o) ==
    /\ {"order_id", "amount_total", "currency_id"} \subseteq DOMAIN res
    /\ res.order_id = o
    /\ res.amount_total = AmountResidual(o)
    /\ res.currency_id = IF PricelistCurrency(o) # NoCurrency
                         THEN PricelistCurrency(o) ELSE SaleCurrency(o)

\* The defaults are the framework's, unchanged.
FrameworkDefaults(res, fields_list) ==
    /\ DOMAIN res = fields_list \cap {"date", "payment_type"}
    /\ "date" \in DOMAIN res => res.date = Today
    /\ "payment_type" \in DOMAIN res => res.payment_type = "inbound"

\* C5 as claimed: whenever the context carries active sales order ids the
\* defaults are populated from the first of them; with no active ids the
\* framework defaults are returned unchanged.
C5_Original ==
    Defaulted =>
        IF last.ctx.active_ids # <<>>
        THEN PopulatedFrom(last.res, last.ctx.active_ids[1])
        ELSE FrameworkDefaults(last.res, last.fields_list)

\* C5, amended: whenever the context carries active sales order ids and
\* amount_total is among the requested fields, the returned defaults have
\* order_id = the first active order, amount_total = that order's residual and
\* currency_id = its pricelist currency if set, otherwise its own currency;
\* with no active ids, or when amount_total is not requested, the framework
\* defaults are returned unchanged.
C5_DefaultsFromOrder ==
    Defaulted =>
        IF last.ctx.active_ids # <<>> /\ "amount_total" \in last.fields_list
        THEN PopulatedFrom(last.res, last.ctx.active_ids[1])
        ELSE FrameworkDefaults(last.res, last.fields_list)

\* C5 happens: defaults were taken from the first of two active orders, one
\* with a pricelist currency and a payment already advanced on it.
C5_Witness ==
    /\ Defaulted
    /\ Len(last.ctx.active_ids) = 2
    /\ "amount_total" \in last.fields_list
    /\ PricelistCurrency(last.ctx.active_ids[1]) # NoCurrency
    /\ last.res.amount_total # OrderTotal(last.ctx.active_ids[1])

\* C6: the payload built by _prepare_payment_vals mirrors the wizard: amount
\* = amount_advance, currency = journal_currency_id, payment_type = the
\* wizard's, partner_type = customer, journal, date and payment method line =
\* the wizard's, partner = the commercial partner of the order's invoice
\* partner, ref = payment_ref when non-empty, otherwise the order's name; and
\* the payment created carries that payload.
C6_PayloadMirrorsWizard ==
    (Made /\ last.steps # <<>>) =>
        LET wzd == wizards[last.wzd]
            sale == last.ctx.active_ids[1]
            v == last.vals
        IN  /\ v.amount = wzd.amount_advance
            /\ v.currency_id = wzd.journal_currency_id
            /\ v.payment_type = wzd.payment_type
            /\ v.partner_type = "customer"
            /\ v.journal_id = wzd.journal_id
            /\ v.date = wzd.date
            /\ v.payment_method_line_id = wzd.payment_method_line_id
            /\ v.partner_id = CommercialPartner(sale)
            /\ wzd.payment_ref # "" => v.ref = wzd.payment_ref
            /\ wzd.payment_ref = "" => v.ref = OrderName(sale)
            /\ \A f \in DOMAIN v : payments[Len(payments)][f] = v[f]

\* C6 happens: a payload was built for a wizard with no payment_ref, whose
\* journal currency differs from the order's, under another order's context.
C6_Witness ==
    /\ Made
    /\ last.steps # <<>>
    /\ wizards[last.wzd].payment_ref = ""
    /\ wizards[last.wzd].journal_currency_id # wizards[last.wzd].currency_id
    /\ last.ctx.active_ids[1] # wizards[last.wzd].order_id
    /\ last.vals.ref = OrderName(last.ctx.active_ids[1])

\* C9: make_advance_payment has no partial outcome. A call that creates a
\* payment creates it, links it to the order and posts it, in that order;
\* when building the payload raises for a negative amount_advance nothing is
\* created, linked or posted; a call with no active ids changes nothing and
\* returns the window-close action.
C9_NoPartialFailure ==
    Made =>
        /\ last.steps \in {<<>>, <<"create", "link", "post">>}
        /\ last.steps = <<>> => Unchanged
        /\ last.steps # <<>> =>
               /\ Len(payments) = Len(last.before.payments) + 1
               /\ payments[Len(payments)].state = "posted"
               /\ Len(payments)
                      \in account_payment_ids[last.ctx.active_ids[1]]
        /\ (last.ctx.active_ids # <<>>
                /\ wizards[last.wzd].amount_advance < 0) =>
               last.result = "UserError" /\ last.steps = <<>>
        /\ last.ctx.active_ids = <<>> =>
               /\ last.steps = <<>>
               /\ last.result = "ok"
               /\ last.ret = WindowClose

\* C9 happens: the payload of a record with a negative amount raised and
\* nothing was created.
C9_Witness ==
    /\ Made
    /\ last.result = "UserError"
    /\ last.ctx.active_ids # <<>>
    /\ wizards[last.wzd].amount_advance < 0
    /\ payments = <<>>

\* The step wrote payment_type, journal_id or currency_id on wizard w.
WroteMethodLineInput(w) ==
    /\ last'.op = "write"
    /\ last'.result = "ok"
    /\ last'.wzd = w
    /\ last'.field \in {"payment_type", "journal_id", "currency_id"}

\* C7: after a change of payment_type, journal_id or currency_id,
\* payment_method_line_id is empty or one of
\* available_payment_method_line_ids: it keeps its previous value when that
\* value is still available, becomes the first available line when it is not
\* and the list is non-empty, and is empty exactly when the list is empty.
C7_MethodLineFollowsAvailable ==
    [][\A w \in 1..Len(wizards) :
        WroteMethodLineInput(w) =>
            LET previous == wizards[w].payment_method_line_id
                line == wizards'[w].payment_method_line_id
                available == AvailablePaymentMethodLineIds(wizards'[w])
            IN  /\ line = None \/ line \in SeqToSet(available)
                /\ previous \in SeqToSet(available) => line = previous
                /\ (previous \notin SeqToSet(available) /\ available # <<>>) =>
                       line = available[1]
                /\ line = None <=> available = <<>>]_vars

\* C7 happens: currency_id was written on a wizard whose payment method line
\* is not the first available one, and the line was kept.
C7_Witness ==
    /\ last.op = "write"
    /\ last.result = "ok"
    /\ last.field = "currency_id"
    /\ LET wzd == wizards[last.wzd]
       IN  /\ Len(AvailablePaymentMethodLineIds(wzd)) = 2
           /\ wzd.payment_method_line_id =
                  AvailablePaymentMethodLineIds(wzd)[2]

\* C8: after any sequence of edits of journal_id, date, amount_advance and
\* currency_id, journal_currency_id is the journal's currency (or its
\* company's when it has none) and currency_amount is amount_advance when
\* journal_currency_id = currency_id, and otherwise the conversion of the
\* current amount_advance from journal_currency_id to currency_id at the
\* current date.
C8_DependentFieldsFresh ==
    \A w \in 1..Len(wizards) :
        LET wzd == wizards[w]
        IN  /\ wzd.journal_currency_id =
                   (IF JournalCurrency(wzd.journal_id) # NoCurrency
                    THEN JournalCurrency(wzd.journal_id)
                    ELSE JournalCompanyCurrency(wzd.journal_id))
            /\ wzd.currency_amount =
                   (IF wzd.journal_currency_id = wzd.currency_id
                    THEN wzd.amount_advance
                    ELSE Convert(wzd.amount_advance, wzd.journal_currency_id,
                                 wzd.currency_id, wzd.date))

====
